---- MODULE Spec2Model ----
(***************************************************************************)
(* Model of the Databricks Genie Slack bot core                            *)
(* (src/databricks_genie_bot/databricks_utils.py): the result normalizer   *)
(* process_query_result, the job poller query_data and the facade          *)
(* genie_query with its per-user conversation contexts.                    *)
(*                                                                         *)
(* Conventions.  A Python str that is built by formatting is a sequence of *)
(* tokens (each token a TLA+ string); "" is <<>>; "x in s" on such a str   *)
(* is Contains.  Identifiers, column names and cell values are atoms.      *)
(* A JSON value that may be missing or null is a record tagged by t:       *)
(* "absent" (key not in the dict), "null", "obj" or "list".  A Python dict *)
(* returned by the code is a record plus the set of its keys.  A call that *)
(* may raise yields Ok(v) or Raise(e).                                     *)
(***************************************************************************)
EXTENDS Integers, Sequences, FiniteSets, TLC

(***************************************************************************)
(* Bounds of the model.                                                    *)
(***************************************************************************)
\* largest configured MAX_RETRIES explored (the code's threshold "attempt > 3"
\* needs at least 5 attempts to matter)
MaxRetries == 6
\* asks (genie_query calls) per behaviour
MaxAsks == 2
\* genie_query calls that may be in flight together
MaxInFlight == 2
\* schema columns, data rows and values per row of an enumerated raw payload
MaxCols == 2
MaxRows == 2
MaxWidth == 2
\* columns and rows of an envelope handed to the Slack formatter
MaxTableCols == 6
MaxTableRows == 12

(***************************************************************************)
(* Python values.                                                          *)
(***************************************************************************)
None == "None"
Absent == [t |-> "absent"]
Null == [t |-> "null"]

Ok(v) == [ok |-> TRUE, v |-> v]
Raise(e) == [ok |-> FALSE, e |-> e]

\* an exception object: its class and str(e)
Exc(cls, msg) == [cls |-> cls, msg |-> msg]

\* the classes the code can see raised, each with its base class
\* (requests.exceptions.HTTPError and ConnectionError derive from
\* RequestException; everything derives from Exception)
BaseOf(cls) ==
    CASE cls = "HTTPError" -> "RequestException"
      [] cls = "ConnectionError" -> "RequestException"
      [] OTHER -> "Exception"

IsInstance(e, cls) ==
    \/ e.cls = cls
    \/ BaseOf(e.cls) = cls
    \/ cls = "Exception"

\* "needle in hay" for formatted strings
Contains(hay, needle) ==
    \E i \in 0..(Len(hay) - Len(needle)) :
        \A j \in 1..Len(needle) : hay[i + j] = needle[j]

\* all sequences over S of length lo..hi
SeqsOf(S, lo, hi) == UNION {[1..n -> S] : n \in lo..hi}

(***************************************************************************)
(* process_query_result                                                    *)
(***************************************************************************)
NoDataText ==
    << "The query completed successfully but returned no data. This could mean:\n",
       "(bullet) The data might not exist for the specified parameters\n",
       "(bullet) You might need additional permissions\n\n",
       "Try:\n",
       "(bullet) Verifying the parameters in your query\n",
       "(bullet) Checking your access permissions" >>

\* formatted_result as initialised at the top of process_query_result
EmptyEnvelope ==
    [text |-> <<>>, query_description |-> <<>>, sql_query |-> <<>>,
     columns |-> <<>>, rows |-> <<>>]

\* the dict {} that .get(key, {}) falls back to
EmptyDict == [t |-> "obj", status |-> Absent, manifest |-> Absent, result |-> Absent,
              state |-> Absent, data_typed_array |-> Absent]

NoneTypeHasNoGet == Exc("AttributeError", <<"'NoneType' object has no attribute 'get'">>)
NoneTypeNotIterable == Exc("TypeError", <<"'NoneType' object is not iterable">>)
ListIndexOutOfRange == Exc("IndexError", <<"list index out of range">>)

\* mutant: a list that is present counts as data even when it is empty
TruthyWhenPresent(lst) == lst.t = "list"

\* bool(x) of a list held under a key, with the .get default []
Truthy(lst) == lst.t = "list" /\ Len(lst.items) > 0

\* [field.get("name", "") for field in manifest["schema"]["columns"]]
ColumnNames(columns) ==
    [i \in 1..Len(columns.items) |->
        IF columns.items[i].has_name THEN columns.items[i].name ELSE ""]

\* "if manifest and 'schema' in manifest and 'columns' in manifest['schema']"
HasSchemaColumns(manifest) ==
    /\ manifest.t = "obj"
    /\ manifest.schema.t = "obj"
    /\ manifest.schema.columns.t # "absent"

\* "if row and 'values' in row"
RowHasValues(row) == row.t = "obj" /\ row.values.t = "list"

\* [value.get("str", None) for value in row["values"]]
RowValues(row) ==
    [i \in 1..Len(row.values.items) |->
        IF row.values.items[i].has_str THEN row.values.items[i].str ELSE None]

RECURSIVE ExtractRows(_)
ExtractRows(items) ==
    IF items = <<>> THEN <<>>
    ELSE IF RowHasValues(Head(items))
         THEN <<RowValues(Head(items))>> \o ExtractRows(Tail(items))
         ELSE ExtractRows(Tail(items))

\* mutant: the rendering is made for a table of any shape
ScalarTextAnyShape(columns, rows) ==
    IF Len(rows) > 0 /\ Len(columns) > 0
    THEN IF Len(rows[1]) = 0
         THEN Raise(ListIndexOutOfRange)
         ELSE Ok(<<"Result: ", columns[1], " = ", rows[1][1], "\n">>)
    ELSE Ok(<<>>)

\* lines 183-189: the single-scalar rendering
ScalarText(columns, rows) ==
    IF Len(rows) > 0 /\ Len(columns) > 0 /\ Len(columns) = 1 /\ Len(rows) = 1
    THEN IF Len(rows[1]) = 0
         THEN Raise(ListIndexOutOfRange)
         ELSE Ok(<<"Result: ", columns[1], " = ", rows[1][1], "\n">>)
    ELSE Ok(<<>>)

\* lines 166-191: the manifest/result branch
ExtractTable(sr) ==
    IF sr.manifest.t # "absent" /\ sr.result.t # "absent"
    THEN LET manifest == sr.manifest
             result_data == sr.result
         IN  IF HasSchemaColumns(manifest) /\ manifest.schema.columns.t = "null"
             THEN Raise(NoneTypeNotIterable)
             ELSE
             LET columns == IF HasSchemaColumns(manifest)
                            THEN ColumnNames(manifest.schema.columns)
                            ELSE <<>>
                 hasData == result_data.t = "obj" /\ result_data.data_typed_array.t # "absent"
             IN  IF hasData /\ result_data.data_typed_array.t = "null"
                 THEN Raise(NoneTypeNotIterable)
                 ELSE
                 LET rows == IF hasData
                             THEN ExtractRows(result_data.data_typed_array.items)
                             ELSE <<>>
                     text == ScalarText(columns, rows)
                 IN  IF text.ok
                     THEN Ok([EmptyEnvelope EXCEPT !.columns = columns,
                                                   !.rows = rows,
                                                   !.text = text.v])
                     ELSE text
    ELSE Ok(EmptyEnvelope)

process_query_result(result) ==
    LET statement_response ==
            IF result.statement_response.t = "absent" THEN EmptyDict
            ELSE result.statement_response
    IN  IF statement_response.t = "null" THEN Raise(NoneTypeHasNoGet)
        ELSE
        LET statusObj == IF statement_response.status.t = "absent" THEN EmptyDict
                         ELSE statement_response.status
        IN  IF statusObj.t = "null" THEN Raise(NoneTypeHasNoGet)
            ELSE
            LET status == IF statusObj.state.t = "absent" THEN "" ELSE statusObj.state.s
            IN  IF status = "SUCCEEDED"
                THEN LET res == IF statement_response.result.t = "absent" THEN EmptyDict
                                ELSE statement_response.result
                     IN  IF res.t = "null" THEN Raise(NoneTypeHasNoGet)
                         ELSE IF ~Truthy(res.data_typed_array)
                              THEN Ok([EmptyEnvelope EXCEPT !.text = NoDataText])
                              ELSE ExtractTable(statement_response)
                ELSE ExtractTable(statement_response)

(***************************************************************************)
(* Raw payloads of get-turn-result, enumerated within the bounds.          *)
(***************************************************************************)
List(items) == [t |-> "list", items |-> items]

ColNames == {"total"}
CellValues == {"42"}

Fields == [has_name : {TRUE}, name : ColNames] \cup {[has_name |-> FALSE, name |-> ""]}
Values == [has_str : {TRUE}, str : CellValues] \cup {[has_str |-> FALSE, str |-> None]}

RawRows ==
    {Null, [t |-> "obj", values |-> Absent]}
    \cup {[t |-> "obj", values |-> List(vs)] : vs \in SeqsOf(Values, 0, MaxWidth)}

RawManifests ==
    {Absent, Null,
     [t |-> "obj", schema |-> Absent],
     [t |-> "obj", schema |-> [t |-> "obj", columns |-> Absent]]}
    \cup {[t |-> "obj", schema |-> [t |-> "obj", columns |-> List(fs)]] :
            fs \in SeqsOf(Fields, 0, MaxCols)}

RawResults ==
    {Absent, Null,
     [t |-> "obj", data_typed_array |-> Absent],
     [t |-> "obj", data_typed_array |-> Null]}
    \cup {[t |-> "obj", data_typed_array |-> List(rs)] : rs \in SeqsOf(RawRows, 0, MaxRows)}

RawStatuses ==
    {Absent, Null, [t |-> "obj", state |-> Absent]}
    \cup {[t |-> "obj", state |-> [t |-> "str", s |-> s]] : s \in {"SUCCEEDED", "FAILED"}}

Payloads ==
    {[statement_response |-> Absent], [statement_response |-> Null]}
    \cup {[statement_response |->
             [t |-> "obj", status |-> st, manifest |-> m, result |-> r]] :
            st \in RawStatuses, m \in RawManifests, r \in RawResults}

(***************************************************************************)
(* The remote analytics API as query_data sees it: what each of the four   *)
(* requests can return or raise.                                           *)
(***************************************************************************)
Users == {"U1", "U2"}
ConvIds == {"c1", "c2"}
MsgIds == {"m1", "m2"}

Str(s) == [t |-> "str", s |-> s]

\* raise_for_status() and a failed connection
HTTPError == Exc("HTTPError", <<"500 Server Error: Internal Server Error for url">>)
ConnectionError == Exc("ConnectionError", <<"Connection aborted.">>)
\* result["conversation_id"] / result["message_id"] on a body without the key
KeyErrorOf(key) == Exc("KeyError", <<"'", key, "'">>)
ListHasNoGet == Exc("AttributeError", <<"'list' object has no attribute 'get'">>)

PlaceholderToken == "<current_workspace_id>"

TextAttachment ==
    [text |-> [t |-> "obj", content |-> Str(<<"Hello from Genie">>)], query |-> Absent]
QueryAttachment ==
    [text |-> Absent,
     query |-> [t |-> "obj", description |-> Str(<<"Top spender">>),
                query |-> Str(<<"SELECT sku FROM usage">>)]]
PlaceholderAttachment ==
    [text |-> Absent,
     query |-> [t |-> "obj", description |-> Str(<<"Spend by workspace">>),
                query |-> Str(<<"SELECT * FROM usage WHERE workspace_id = ",
                                PlaceholderToken>>)]]
\* a text attachment without content next to a query without description or text
BareQueryAttachment ==
    [text |-> [t |-> "obj", content |-> Absent],
     query |-> [t |-> "obj", description |-> Absent, query |-> Absent]]
\* neither text nor query (e.g. suggested questions)
OtherAttachment == [text |-> Absent, query |-> Absent]

Message(status, error_message, attachments) ==
    [t |-> "obj", status |-> status, error_message |-> error_message,
     attachments |-> attachments]

\* the payloads get-turn-result answers with while an ask is followed
ColumnsOf(names) ==
    [t |-> "obj",
     schema |-> [t |-> "obj",
                 columns |-> List([i \in 1..Len(names) |->
                                     [has_name |-> TRUE, name |-> names[i]]])]]
RowOf(cells) ==
    [t |-> "obj",
     values |-> List([i \in 1..Len(cells) |-> [has_str |-> TRUE, str |-> cells[i]]])]
Statement(state, manifest, rows) ==
    [statement_response |->
        [t |-> "obj", status |-> [t |-> "obj", state |-> Str(state)],
         manifest |-> manifest,
         result |-> [t |-> "obj", data_typed_array |-> List(rows)]]]

ScalarPayload == Statement("SUCCEEDED", ColumnsOf(<<"total">>), <<RowOf(<<"42">>)>>)
NoDataPayload == Statement("SUCCEEDED", ColumnsOf(<<"total">>), <<>>)
RaggedPayload == Statement("SUCCEEDED", ColumnsOf(<<"total", "n">>), <<RowOf(<<"42">>)>>)
EmptyRowPayload == Statement("SUCCEEDED", ColumnsOf(<<"total">>), <<RowOf(<<>>)>>)
NullPayload == [statement_response |-> Null]
BarePayload == [statement_response |-> Absent]

\* api = "full": every shape of answer; api = "basic": a remote that answers
\* plainly; api = "plain": only what decides where a conversation handle goes
\* (a turn is created or not and, once created, completes with a text at the
\* first status check)
StartResponses(api) ==
    IF api = "full"
    THEN {Ok([conversation_id |-> "c1", message_id |-> "m1"]),
          Raise(HTTPError), Raise(ConnectionError), Raise(KeyErrorOf("conversation_id"))}
    ELSE {Ok([conversation_id |-> "c1", message_id |-> "m1"]),
          Ok([conversation_id |-> "c2", message_id |-> "m2"]),
          Raise(HTTPError)}

AddResponses(api) ==
    {Ok([message_id |-> m]) : m \in IF api = "plain" THEN {"m1"} ELSE MsgIds}
    \cup {Raise(HTTPError)}
    \cup IF api = "full" THEN {Raise(KeyErrorOf("message_id"))} ELSE {}

AttachmentLists ==
    {Absent, Null}
    \cup {List(as) : as \in SeqsOf({TextAttachment, QueryAttachment, PlaceholderAttachment,
                                    BareQueryAttachment, OtherAttachment}, 0, 2)}

StatusResponses(api) ==
    IF api = "full"
    THEN {Raise(HTTPError), Raise(ConnectionError), Ok([t |-> "list"])}
         \cup {Ok(Message(Str("COMPLETED"), Absent, a)) : a \in AttachmentLists}
         \cup {Ok(Message(Str("COMPLETE"), Absent, List(as))) :
                 as \in {<<>>, <<TextAttachment>>, <<QueryAttachment>>}}
         \cup {Ok(Message(Str("ERROR"), m, Absent)) :
                 m \in {Absent, Str(<<"quota exceeded">>)}}
         \cup {Ok(Message(Str(st), Absent, Absent)) :
                 st \in {"IN_PROGRESS", "PENDING", "RUNNING", "EXECUTING_QUERY"}}
         \cup {Ok(Message(Absent, Absent, Absent))}
    ELSE IF api = "plain"
    THEN {Ok(Message(Str("COMPLETED"), Absent, List(<<TextAttachment>>)))}
    ELSE {Raise(HTTPError),
          Ok(Message(Str("COMPLETED"), Absent, List(<<TextAttachment>>))),
          Ok(Message(Str("COMPLETED"), Absent, List(<<QueryAttachment>>))),
          Ok(Message(Str("ERROR"), Str(<<"quota exceeded">>), Absent)),
          Ok(Message(Str("PENDING"), Absent, Absent))}

ResultsResponses(api) ==
    IF api = "full"
    THEN {Raise(HTTPError)}
         \cup {Ok(p) : p \in {ScalarPayload, NoDataPayload, RaggedPayload,
                              EmptyRowPayload, NullPayload, BarePayload}}
    ELSE {Raise(HTTPError), Ok(ScalarPayload)}

(***************************************************************************)
(* query_data: outcomes                                                    *)
(***************************************************************************)
ClarificationText ==
    << "I notice you're querying workspace-specific data. ",
       "Please specify which workspace you'd like to analyze. For example:\n",
       "(bullet) 'Show me the top spender in workspace 123456'\n",
       "(bullet) 'Who used the most compute in workspace my-workspace-name'" >>

\* mutant: the turn id is left out of a successful outcome
SuccessWithoutTurn(conversation_id, message_id, result) ==
    [keys |-> {"conversation_id", "message_id", "result"},
     conversation_id |-> conversation_id, message_id |-> None,
     result |-> result, note |-> <<>>, error |-> <<>>]

\* the dict of lines 233-243, 251-266, 276-280
Success(conversation_id, message_id, result) ==
    [keys |-> {"conversation_id", "message_id", "result"},
     conversation_id |-> conversation_id, message_id |-> message_id,
     result |-> result, note |-> <<>>, error |-> <<>>]

\* the dict of lines 295-300
SuccessWithNote(conversation_id, message_id, result, status) ==
    [Success(conversation_id, message_id, result) EXCEPT
        !.keys = @ \cup {"note"},
        !.note = <<"Results retrieved while status was '", status, "'">>]

\* mutant: a Failure never carries a handle
FailureWithoutHandle(conversation_id, e) ==
    [keys |-> {"conversation_id", "message_id", "result", "error"},
     conversation_id |-> None, message_id |-> None,
     result |-> [EmptyEnvelope EXCEPT !.text = <<"Error querying data: ">> \o e.msg],
     note |-> <<>>, error |-> e.msg]

\* the dict of lines 315-326
FailureOutcome(conversation_id, e) ==
    [keys |-> {"conversation_id", "message_id", "result", "error"},
     conversation_id |-> conversation_id, message_id |-> None,
     result |-> [EmptyEnvelope EXCEPT !.text = <<"Error querying data: ">> \o e.msg],
     note |-> <<>>, error |-> e.msg]

\* mutant: the handler catches transport errors only
CaughtTransportOnly(e) == IsInstance(e, "RequestException")

\* line 313: "except Exception as e"
CaughtByQueryData(e) == IsInstance(e, "Exception")

\* line 312
TimeoutError(max_retries) ==
    Exc("Exception", <<"Query timed out after ", ToString(max_retries), " attempts">>)

\* mutant: the remote failure is raised as a transport error
QueryFailedAsTransport(message_data) ==
    Exc("RequestException",
        <<"Query failed: ">> \o (IF message_data.error_message.t = "absent"
                                 THEN <<"Unknown error occurred">>
                                 ELSE message_data.error_message.s))

\* lines 283-286
QueryFailed(message_data) ==
    Exc("Exception",
        <<"Query failed: ">> \o (IF message_data.error_message.t = "absent"
                                 THEN <<"Unknown error occurred">>
                                 ELSE message_data.error_message.s))

(***************************************************************************)
(* query_data: one iteration of the poll loop, lines 215-309               *)
(***************************************************************************)
\* what the try body of an iteration did: return a dict, raise, or fall
\* through to the next iteration; fetched counts its get_query_results calls
Returned(outcome, fetched) == [kind |-> "return", outcome |-> outcome, fetched |-> fetched]
Raised(e, fetched) == [kind |-> "raise", e |-> e, fetched |-> fetched]
Continue(fetched) == [kind |-> "continue", fetched |-> fetched]

\* line 222
StatusOf(message_data) ==
    IF message_data.status.t = "absent" THEN "" ELSE message_data.status.s

\* line 225
IsComplete(status) == status \in {"COMPLETE", "COMPLETED"}

\* line 232
IsTextAttachment(a) == a.text.t = "obj" /\ a.text.content.t # "absent"
\* line 245
IsQueryAttachment(a) == ~IsTextAttachment(a) /\ a.query.t # "absent"

\* the first attachment the loop of line 230 returns at (0: none)
FirstHandled(items) ==
    IF \E i \in 1..Len(items) : IsTextAttachment(items[i]) \/ IsQueryAttachment(items[i])
    THEN CHOOSE i \in 1..Len(items) :
            /\ IsTextAttachment(items[i]) \/ IsQueryAttachment(items[i])
            /\ \A j \in 1..(i - 1) :
                  ~(IsTextAttachment(items[j]) \/ IsQueryAttachment(items[j]))
    ELSE 0

\* lines 246-247
DescriptionOf(a) == IF a.query.description.t = "absent" THEN <<>> ELSE a.query.description.s
SqlOf(a) == IF a.query.query.t = "absent" THEN <<>> ELSE a.query.query.s

\* mutant: the placeholder is never recognised
HasPlaceholderNever(sql_query) == FALSE

\* line 250
HasPlaceholder(sql_query) == Contains(sql_query, <<PlaceholderToken>>)

\* lines 232-280: the attachment the loop returns at
AttachmentResult(a, conversation_id, message_id, rresp) ==
    IF IsTextAttachment(a)
    THEN Returned(Success(conversation_id, message_id,
                          [EmptyEnvelope EXCEPT !.text = a.text.content.s]), 0)
    ELSE IF HasPlaceholder(SqlOf(a))
    THEN Returned(Success(conversation_id, message_id,
                          [EmptyEnvelope EXCEPT !.text = ClarificationText,
                                                !.query_description = DescriptionOf(a),
                                                !.sql_query = SqlOf(a)]), 0)
    ELSE IF ~rresp.ok THEN Raised(rresp.e, 1)
    ELSE LET processed_result == process_query_result(rresp.v)
         IN  IF ~processed_result.ok THEN Raised(processed_result.e, 1)
             ELSE Returned(Success(conversation_id, message_id,
                                   [processed_result.v EXCEPT
                                       !.query_description = DescriptionOf(a),
                                       !.sql_query = SqlOf(a)]), 1)

\* line 288
OpportunisticFetch(attempt, status) ==
    attempt > 3 /\ status \in {"IN_PROGRESS", "PENDING", "RUNNING"}

\* mutant: an exception of the fetch or of the normalizer leaves the iteration
OpportunisticResultRaises(conversation_id, message_id, status, rresp) ==
    IF ~rresp.ok THEN Raised(rresp.e, 1)
    ELSE IF ~process_query_result(rresp.v).ok
    THEN Raised(process_query_result(rresp.v).e, 1)
    ELSE Returned(SuccessWithNote(conversation_id, message_id,
                                  process_query_result(rresp.v).v, status), 1)

\* lines 289-302: any exception of the fetch or of the normalizer is swallowed
OpportunisticResult(conversation_id, message_id, status, rresp) ==
    IF rresp.ok /\ process_query_result(rresp.v).ok
    THEN Returned(SuccessWithNote(conversation_id, message_id,
                                  process_query_result(rresp.v).v, status), 1)
    ELSE Continue(1)

\* lines 220-304, mresp and rresp being what get_query_message and
\* get_query_results answer in this iteration
LoopBody(attempt, conversation_id, message_id, mresp, rresp) ==
    IF ~mresp.ok THEN Raised(mresp.e, 0)
    ELSE IF mresp.v.t # "obj" THEN Raised(ListHasNoGet, 0)
    ELSE
    LET message_data == mresp.v
        status == StatusOf(message_data)
        attachments == message_data.attachments
        handled == IF IsComplete(status) /\ attachments.t = "list"
                   THEN FirstHandled(attachments.items) ELSE 0
    IN  IF IsComplete(status) /\ attachments.t = "null" THEN Raised(NoneTypeNotIterable, 0)
        ELSE IF handled # 0
        THEN AttachmentResult(attachments.items[handled], conversation_id, message_id, rresp)
        ELSE IF status = "ERROR" THEN Raised(QueryFailed(message_data), 0)
        ELSE IF OpportunisticFetch(attempt, status)
        THEN OpportunisticResult(conversation_id, message_id, status, rresp)
        ELSE Continue(0)

\* whether this iteration reaches a get_query_results call (lines 269, 291)
Fetches(attempt, mresp) ==
    LoopBody(attempt, None, None, mresp, Raise(HTTPError)).fetched = 1

\* mutant: the loop stops one attempt early
LoopRunsShort(attempt, max_retries) == attempt < max_retries - 1

\* line 214: "for attempt in range(max_retries)"
LoopRuns(attempt, max_retries) == attempt < max_retries

\* mutant: no exception is absorbed
RetriedNever(attempt, max_retries, e) == FALSE

\* mutant: every exception is absorbed before the last attempt
RetriedAny(attempt, max_retries, e) == attempt # max_retries - 1

\* mutant: a transport error is absorbed on the last attempt too
RetriedAlsoLast(attempt, max_retries, e) == IsInstance(e, "RequestException")

\* lines 305-309: the exceptions of an iteration that the loop absorbs
Retried(attempt, max_retries, e) ==
    IsInstance(e, "RequestException") /\ attempt # max_retries - 1

(***************************************************************************)
(* State.                                                                  *)
(***************************************************************************)
VARIABLES
    MAINTAIN_CONTEXT,       \* config: the context-retention flag
    MAX_RETRIES,            \* config: the default of query_data's max_retries
    api,                    \* which answers the remote API gives: "basic" or "full"
    callers,                \* the users who ask
    budget,                 \* genie_query calls the callers will still make
    conversation_contexts,  \* user id -> its ConversationContext (0: no entry)
    contexts,               \* ConversationContext objects: their conversation_id
    asks,                   \* the genie_query calls: position, locals, calls made
    raw_result,             \* a payload handed to process_query_result alone
    formatted_result,       \* what process_query_result made of raw_result
    posted,                 \* the message a user posted in Slack
    handlers,               \* the Slack listener running in each thread
    said,                   \* the say() calls made, in order
    invoked,                \* genie_query calls made for the posted message
    FORMAT_TABLES,          \* config: whether tables are rendered
    data,                   \* an envelope handed to format_dataframe_for_slack
    table_block             \* the table block format_dataframe_for_slack made of it

vars == <<MAINTAIN_CONTEXT, MAX_RETRIES, api, callers, budget, conversation_contexts,
          contexts, asks, raw_result, formatted_result, posted, handlers, said, invoked,
          FORMAT_TABLES, data, table_block>>

config == <<MAINTAIN_CONTEXT, MAX_RETRIES, api, callers>>
normalizer == <<raw_result, formatted_result>>
formatter == <<FORMAT_TABLES, data, table_block>>
transport == <<posted, handlers, said, invoked, formatter>>

Slots == 1..MaxInFlight
ContextIds == 1..MaxAsks
\* a ConversationContext that no genie_query call has constructed yet
Unborn == "unborn"

NotCalled == [ok |-> FALSE, called |-> FALSE]
NoExc == Exc("<none>", <<>>)
NotRun == [ok |-> FALSE, run |-> FALSE]
NoOutcome ==
    [keys |-> {}, conversation_id |-> None, message_id |-> None,
     result |-> EmptyEnvelope, note |-> <<>>, error |-> <<>>]

\* one genie_query call.  pc: "idle", "looked" (line 337 evaluated),
\* "resolved" (context chosen, lines 337-342), "updating" (line 354 found
\* the handle null, line 355 not yet run),
\* "polling" (turn created, in the loop of line 214), "returned" (query_data
\* returned, line 351), "done" (genie_query returned), "escaped" (an exception
\* left genie_query).  arg: the conversation_id passed at line 350.
\* checked/before: what the latest status check answered and what the checks
\* before it did.  raised: the exception the latest iteration's try body
\* raised (NoExc: none).  created: the answer of the turn-creating request.
\* last_message: the answer of the status check that ended the loop.
\* last_results: the answer of the latest iteration's result fetch.  log: the requests made, in order.  order: among
\* calls running side by side, the how-manieth to return (0: not yet).
IdleAsk ==
    [pc |-> "idle", user_id |-> None, context |-> 0, arg |-> None,
     conversation_id |-> None, message_id |-> None, attempt |-> 0,
     checked |-> "<none>", before |-> "<none>", raised |-> NoExc,
     created |-> NotCalled, last_message |-> NotCalled, last_results |-> NotCalled,
     log |-> <<>>, result |-> NoOutcome, order |-> 0]

Call(op, conversation_id, message_id) ==
    [op |-> op, conversation_id |-> conversation_id, message_id |-> message_id]

\* what a status check answered: its status string, or that it raised
Checked(mresp) ==
    IF ~mresp.ok THEN "<raised>"
    ELSE IF mresp.v.t # "obj" THEN "<malformed>"
    ELSE StatusOf(mresp.v)

NonTerminal(checked) ==
    checked \notin {"<none>", "<raised>", "<malformed>", "COMPLETE", "COMPLETED", "ERROR"}

ClassOf(checked) ==
    IF checked = "<raised>" THEN "raised"
    ELSE IF NonTerminal(checked) THEN "nonterminal" ELSE "other"

\* the checks before the latest one: "<none>", all "raised", all "nonterminal",
\* all "other", or "mixed"
Before(a) ==
    IF a.checked = "<none>" THEN "<none>"
    ELSE IF a.before \in {"<none>", ClassOf(a.checked)} THEN ClassOf(a.checked)
    ELSE "mixed"

(***************************************************************************)
(* genie_query and query_data as steps.                                    *)
(***************************************************************************)
\* mutant: a stored context is never reused
HasContextNever(user_id) == FALSE

\* line 337: "MAINTAIN_CONTEXT and user_id in conversation_contexts"
HasContext(user_id) == MAINTAIN_CONTEXT /\ conversation_contexts[user_id] # 0

\* mutant: a fresh context is stored whatever the retention flag
StoresContextAlways == TRUE

\* line 341: "if MAINTAIN_CONTEXT:"
StoresContext == MAINTAIN_CONTEXT

\* mutant: one context object serves every call
NewContextShared == CHOOSE i \in ContextIds : \A j \in ContextIds : i <= j

\* line 340: the object that "ConversationContext()" constructs
NewContext == CHOOSE i \in ContextIds :
                 contexts[i] = Unborn /\ \A j \in 1..(i - 1) : contexts[j] # Unborn

\* lines 337-342 for the call in slot s
Begin(s, user_id) ==
    /\ budget > 0
    /\ user_id \in callers
    /\ asks[s].pc \in {"idle", "done", "escaped"}
    /\ budget' = budget - 1
    /\ IF HasContext(user_id)
       THEN /\ asks' = [asks EXCEPT ![s] = [IdleAsk EXCEPT
                           !.pc = "resolved", !.user_id = user_id,
                           !.context = conversation_contexts[user_id]]]
            /\ UNCHANGED <<contexts, conversation_contexts>>
       ELSE /\ asks' = [asks EXCEPT ![s] = [IdleAsk EXCEPT
                           !.pc = "resolved", !.user_id = user_id,
                           !.context = NewContext]]
            /\ contexts' = [contexts EXCEPT ![NewContext] = None]
            /\ conversation_contexts' =
                   IF StoresContext
                   THEN [conversation_contexts EXCEPT ![user_id] = NewContext]
                   ELSE conversation_contexts
    /\ UNCHANGED <<config, normalizer, transport>>

\* genie_query called while no other call is in progress
SeqBegin(user_id) ==
    /\ \A t \in Slots : asks[t].pc \in {"idle", "done", "escaped"}
    /\ Begin(1, user_id)

\* lines 313-326: the handler around the body of query_data
Handle(a, e) ==
    IF CaughtByQueryData(e)
    THEN [a EXCEPT !.pc = "returned", !.result = FailureOutcome(a.conversation_id, e)]
    ELSE [a EXCEPT !.pc = "escaped"]

\* mutant: a new conversation is started whatever the handle
TurnRequestAlwaysStarts(conversation_id) == "start_conversation"

\* lines 208-211: the request that creates the turn
TurnRequest(conversation_id) ==
    IF conversation_id = None THEN "start_conversation" ELSE "add_message"

\* lines 345-351 and 205-211: the call of query_data and its first request
CreateTurn(s) ==
    LET a == asks[s]
        handle == contexts[a.context]
        request == TurnRequest(handle)
        called == [a EXCEPT
                     !.arg = handle, !.conversation_id = handle,
                     !.log = <<Call(request, handle, None)>>]
    IN  /\ a.pc = "resolved"
        /\ \E r \in IF request = "start_conversation" THEN StartResponses(api)
                    ELSE AddResponses(api) :
              asks' = [asks EXCEPT ![s] =
                  IF r.ok
                  THEN [called EXCEPT
                          !.pc = "polling",
                          !.created = r,
                          !.conversation_id =
                              IF request = "start_conversation"
                              THEN r.v.conversation_id ELSE handle,
                          !.message_id = r.v.message_id]
                  ELSE Handle([called EXCEPT !.created = r], r.e)]
        /\ UNCHANGED <<config, budget, conversation_contexts, contexts, normalizer, transport>>

\* mutant: the status check is made without waiting first
IterationCallsNoSleep(conversation_id, message_id, fetched) ==
    <<Call("get_query_message", conversation_id, message_id)>>
    \o (IF fetched = 1
        THEN <<Call("get_query_results", conversation_id, message_id)>>
        ELSE <<>>)

\* lines 217, 220 and 269 or 291: the calls of one iteration, in order
IterationCalls(conversation_id, message_id, fetched) ==
    <<Call("sleep", None, None),
      Call("get_query_message", conversation_id, message_id)>>
    \o (IF fetched = 1
        THEN <<Call("get_query_results", conversation_id, message_id)>>
        ELSE <<>>)

\* lines 214-309: one iteration of the poll loop
Attempt(s) ==
    LET a == asks[s]
    IN  /\ a.pc = "polling"
        /\ LoopRuns(a.attempt, MAX_RETRIES)
        /\ \E mresp \in StatusResponses(api) :
           \E rresp \in IF Fetches(a.attempt, mresp) THEN ResultsResponses(api)
                        ELSE {NotCalled} :
              LET step == LoopBody(a.attempt, a.conversation_id, a.message_id, mresp, rresp)
                  made == [a EXCEPT
                             !.checked = Checked(mresp),
                             !.before = Before(a),
                             !.raised = IF step.kind = "raise" THEN step.e ELSE NoExc,
                             !.last_results = rresp,
                             !.log = @ \o IterationCalls(a.conversation_id,
                                                         a.message_id, step.fetched)]
                  ended == [made EXCEPT !.last_message = mresp]
              IN  asks' = [asks EXCEPT ![s] =
                      CASE step.kind = "return" ->
                              [ended EXCEPT !.pc = "returned", !.result = step.outcome]
                        [] step.kind = "raise" /\ Retried(a.attempt, MAX_RETRIES, step.e) ->
                              [made EXCEPT !.attempt = @ + 1]
                        [] step.kind = "raise" /\ ~Retried(a.attempt, MAX_RETRIES, step.e) ->
                              Handle(ended, step.e)
                        [] step.kind = "continue" ->
                              [made EXCEPT !.attempt = @ + 1]]
        /\ UNCHANGED <<config, budget, conversation_contexts, contexts, normalizer, transport>>

\* lines 310-312: the loop ran out of attempts
Exhausted(s) ==
    LET a == asks[s]
    IN  /\ a.pc = "polling"
        /\ ~LoopRuns(a.attempt, MAX_RETRIES)
        /\ asks' = [asks EXCEPT ![s] = Handle(a, TimeoutError(MAX_RETRIES))]
        /\ UNCHANGED <<config, budget, conversation_contexts, contexts, normalizer, transport>>

\* mutant: only a Success is taken as carrying a handle to learn
UpdatesOnSuccess(handle, result) ==
    handle = None /\ "conversation_id" \in result.keys /\ "error" \notin result.keys

\* line 354: "context.conversation_id is None and 'conversation_id' in result"
Updates(handle, result) == handle = None /\ "conversation_id" \in result.keys

\* mutant: the learned handle is never written back
UpdatedHandleNever(handle, result) == handle

\* lines 354-355: context.conversation_id after the call
UpdatedHandle(handle, result) ==
    IF Updates(handle, result) THEN result.conversation_id ELSE handle

\* lines 353-357
Return(s) ==
    LET a == asks[s]
    IN  /\ a.pc = "returned"
        /\ contexts' = [contexts EXCEPT
                          ![a.context] = UpdatedHandle(contexts[a.context], a.result)]
        /\ asks' = [asks EXCEPT ![s].pc = "done"]
        /\ UNCHANGED <<config, budget, conversation_contexts, normalizer, transport>>

\* a call of genie_query that has evaluated line 337, the test
\* "MAINTAIN_CONTEXT and user_id in conversation_contexts"
Looked(user_id) ==
    [IdleAsk EXCEPT !.pc = "looked", !.user_id = user_id,
                    !.context = IF HasContext(user_id)
                                THEN conversation_contexts[user_id] ELSE 0]

\* threads are numbered in the order in which they call genie_query
NextThread(s) == asks[s].pc = "idle" /\ \A t \in 1..(s - 1) : asks[t].pc # "idle"

\* genie_query called by a thread while other calls may be running
Lookup(s, user_id) ==
    /\ budget > 0
    /\ user_id \in callers
    /\ NextThread(s)
    /\ budget' = budget - 1
    /\ asks' = [asks EXCEPT ![s] = Looked(user_id)]
    /\ UNCHANGED <<config, conversation_contexts, contexts, normalizer, transport>>

\* lines 338-342: take the context found, or construct one and store it
Resolve(s) ==
    LET a == asks[s]
    IN  /\ a.pc = "looked"
        /\ IF a.context # 0
           THEN /\ asks' = [asks EXCEPT ![s].pc = "resolved"]
                /\ UNCHANGED <<contexts, conversation_contexts>>
           ELSE /\ asks' = [asks EXCEPT ![s].pc = "resolved", ![s].context = NewContext]
                /\ contexts' = [contexts EXCEPT ![NewContext] = None]
                /\ conversation_contexts' =
                       IF StoresContext
                       THEN [conversation_contexts EXCEPT ![a.user_id] = NewContext]
                       ELSE conversation_contexts
        /\ UNCHANGED <<config, budget, normalizer, transport>>

\* how many calls have returned
Returns == Cardinality({t \in Slots : asks[t].pc = "done"})

\* line 354: the test, read from the context object as it is now
Check(s) ==
    LET a == asks[s]
    IN  /\ a.pc = "returned"
        /\ asks' = [asks EXCEPT ![s] =
                IF Updates(contexts[a.context], a.result)
                THEN [a EXCEPT !.pc = "updating"]
                ELSE [a EXCEPT !.pc = "done", !.order = Returns + 1]]
        /\ UNCHANGED <<config, budget, conversation_contexts, contexts, normalizer, transport>>

\* line 355: the write, whatever the context object holds by now
Update(s) ==
    LET a == asks[s]
    IN  /\ a.pc = "updating"
        /\ contexts' = [contexts EXCEPT ![a.context] = a.result.conversation_id]
        /\ asks' = [asks EXCEPT ![s].pc = "done", ![s].order = Returns + 1]
        /\ UNCHANGED <<config, budget, conversation_contexts, normalizer, transport>>

(***************************************************************************)
(* The Slack listeners of slack_bot.py.  One message is posted in Slack;   *)
(* Slack delivers it as a "message" event and, when it mentions the bot in *)
(* a channel, as an "app_mention" event, and may deliver an event again.   *)
(***************************************************************************)
SLACK_CHANNEL_ID == "C-genie"
BotMention == "<@B0T>"

\* str.strip() on a text of tokens: blank tokens at both ends go
IsBlank(token) == token \in {" ", "\n"}

RECURSIVE LStrip(_)
LStrip(text) ==
    IF text # <<>> /\ IsBlank(Head(text)) THEN LStrip(Tail(text)) ELSE text

RECURSIVE RStrip(_)
RStrip(text) ==
    IF text # <<>> /\ IsBlank(text[Len(text)])
    THEN RStrip(SubSeq(text, 1, Len(text) - 1))
    ELSE text

Strip(text) == RStrip(LStrip(text))

\* re.sub(r"<@[^>]+>\s*", "", text): every mention and the blanks after it go
RECURSIVE RemoveMentions(_)
RemoveMentions(text) ==
    IF text = <<>> THEN <<>>
    ELSE IF Head(text) = BotMention THEN RemoveMentions(LStrip(Tail(text)))
    ELSE <<Head(text)>> \o RemoveMentions(Tail(text))

\* the messages a user or a bot can post
Texts ==
    {<<>>, <<" ">>, <<"top sku?">>, <<BotMention, " ", "top sku?">>, <<BotMention>>}

SlackMessages ==
    {[type |-> "message", user |-> "U1", text |-> text, ts |-> "T1",
      bot_id |-> bot_id, subtype |-> subtype, channel |-> channel,
      channel_type |-> IF channel = "D-dm" THEN "im" ELSE "channel"] :
        text \in Texts, bot_id \in {None, "B1"},
        subtype \in {None, "bot_add", "bot_message"},
        channel \in {SLACK_CHANNEL_ID, "C-other", "D-dm"}}

NoSlackMessage ==
    [type |-> None, user |-> None, text |-> <<>>, ts |-> None, bot_id |-> None,
     subtype |-> None, channel |-> None, channel_type |-> None]

\* the event types Slack sends for the posted message
EventTypes ==
    {"message"} \cup
    IF (\E i \in 1..Len(posted.text) : posted.text[i] = BotMention)
       /\ posted.channel_type # "im"
    THEN {"app_mention"} ELSE {}

\* body["event"]; an app_mention event has no subtype and no channel_type
EventOf(type) ==
    IF type = "app_mention"
    THEN [posted EXCEPT !.type = type, !.subtype = None, !.channel_type = ""]
    ELSE posted

\* one run of a listener.  phase: "none" (not running), "ignored" (returned
\* without a say), "greeted", "asking" (acknowledged, in genie_query),
\* "replied", "escaped" (an exception left the listener).  message: what
\* handle_message was called with (NoSlackMessage: it was not called).  question: the text passed to genie_query.
\* raised: the say() calls of the run that raised.
NoHandler ==
    [listener |-> None, phase |-> "none", message |-> NoSlackMessage,
     question |-> <<>>, raised |-> 0]

Ignored == [kind |-> "ignore", message |-> NoSlackMessage]

\* handle_message, lines 186-206: the message is one to answer
Accepts(message) ==
    /\ message.bot_id = None
    /\ Strip(message.text) # <<>>
    /\ message.channel = SLACK_CHANNEL_ID \/ message.channel_type = "im"

\* handle_message up to its first say: answer the message or drop it
HandleMessage(message) ==
    IF Accepts(message) THEN [kind |-> "ask", message |-> message]
    ELSE [kind |-> "ignore", message |-> message]

\* handle_message_events, lines 149-178; the dict of lines 159-166 takes
\* text, user, channel, ts, thread_ts and channel_type from the event
HandleMessageEvents(event) ==
    IF event.subtype = "bot_add" THEN Ignored
    ELSE IF event.type = "message" /\ event.subtype = None
    THEN HandleMessage([event EXCEPT !.bot_id = None])
    ELSE Ignored

\* handle_mentions, lines 272-288
HandleMentions(event) ==
    IF Strip(RemoveMentions(Strip(event.text))) # <<>>
    THEN HandleMessage(event)
    ELSE [kind |-> "greet", message |-> event]

\* the listener Bolt runs for an event: the first one registered that matches
Dispatch(event) ==
    IF event.type = "app_mention" THEN HandleMentions(event)
    ELSE HandleMessageEvents(event)

\* the say() calls: lines 211-214, 285-288, 229-232, 252-256 and 263-266
Say(kind, text, thread_ts) == [kind |-> kind, text |-> text, thread_ts |-> thread_ts]

\* chat_postMessage posts the message, or raises
SayOutcomes == {"ok", "raise"}
SlackApiError == Exc("SlackApiError", <<"The request to the Slack API failed.">>)

\* a message posted by the listener running in thread s
Post(s, say) ==
    [by |-> s, kind |-> say.kind, text |-> say.text, thread_ts |-> say.thread_ts]

Acknowledgement(message) ==
    Say("ack", <<"Processing your query: '">> \o Strip(message.text) \o <<"'...">>,
        message.ts)

Greeting(event) ==
    Say("greeting", <<"Hi! How can I help you analyze your Databricks usage?">>, event.ts)

\* mutant: an error outcome is rendered like a result
FinalReplyNoErrorCheck(result, thread_ts) ==
    Say("result",
        IF Strip(result.result.text) = <<>>
        THEN <<"Results received but no explanatory text was provided.">>
        ELSE result.result.text,
        thread_ts)

\* lines 225-233 and 236-256: the reply to an outcome of genie_query
FinalReply(result, thread_ts) ==
    IF "error" \in result.keys
    THEN Say("error", <<"Sorry, I encountered an error: ">> \o result.error, thread_ts)
    ELSE Say("result",
             IF Strip(result.result.text) = <<>>
             THEN <<"Results received but no explanatory text was provided.">>
             ELSE result.result.text,
             thread_ts)

\* lines 260-266: the reply of the except branch
ErrorReply(e, thread_ts) ==
    Say("error", <<"Sorry, I encountered an error: ">> \o e.msg, thread_ts)

\* a thread that runs no listener and no genie_query call
FreeThread(s) ==
    /\ asks[s].pc = "idle"
    /\ handlers[s] = NoHandler
    /\ \A t \in 1..(s - 1) : handlers[t] # NoHandler

\* Slack delivers the posted message as an event of the given type to a free
\* thread: the listener runs up to the call of genie_query and its line 337
Deliver(s, type) ==
    LET outcome == Dispatch(EventOf(type))
        run == [NoHandler EXCEPT
                  !.listener = IF type = "app_mention" THEN "handle_mentions"
                               ELSE "handle_message_events",
                  !.message = IF outcome.kind = "greet" THEN NoSlackMessage
                              ELSE outcome.message]
    IN  /\ budget > 0
        /\ type \in EventTypes
        /\ FreeThread(s)
        /\ budget' = budget - 1
        /\ CASE outcome.kind = "ask" ->
                  \E o \in SayOutcomes :
                     IF o = "ok"
                     THEN /\ said' = Append(said, Post(s, Acknowledgement(outcome.message)))
                          /\ invoked' = invoked + 1
                          /\ handlers' = [handlers EXCEPT ![s] =
                                 [run EXCEPT !.phase = "asking",
                                             !.question = Strip(outcome.message.text)]]
                          /\ asks' = [asks EXCEPT ![s] = Looked(outcome.message.user)]
                     ELSE /\ handlers' = [handlers EXCEPT ![s] =
                                 [run EXCEPT !.phase = "escaped", !.raised = 1]]
                          /\ UNCHANGED <<said, invoked, asks>>
             [] outcome.kind = "greet" ->
                  \E o \in SayOutcomes :
                     IF o = "ok"
                     THEN /\ said' = Append(said, Post(s, Greeting(outcome.message)))
                          /\ handlers' = [handlers EXCEPT ![s] =
                                 [run EXCEPT !.phase = "greeted"]]
                          /\ UNCHANGED <<invoked, asks>>
                     ELSE /\ handlers' = [handlers EXCEPT ![s] =
                                 [run EXCEPT !.phase = "escaped", !.raised = 1]]
                          /\ UNCHANGED <<said, invoked, asks>>
             [] outcome.kind = "ignore" ->
                  /\ handlers' = [handlers EXCEPT ![s] = [run EXCEPT !.phase = "ignored"]]
                  /\ UNCHANGED <<said, invoked, asks>>
        /\ UNCHANGED <<config, conversation_contexts, contexts, normalizer, posted,
                       formatter>>

\* handle_message, lines 222-266: genie_query has returned and the reply is
\* sent; when that say() raises, the except branch sends the error instead
Reply(s) ==
    LET h == handlers[s]
    IN  /\ h.phase = "asking"
        /\ asks[s].pc = "done"
        /\ \E first, second \in SayOutcomes :
              IF first = "ok"
              THEN /\ said' = Append(said, Post(s, FinalReply(asks[s].result, h.message.ts)))
                   /\ handlers' = [handlers EXCEPT ![s].phase = "replied"]
              ELSE IF second = "ok"
              THEN /\ said' = Append(said, Post(s, ErrorReply(SlackApiError, h.message.ts)))
                   /\ handlers' = [handlers EXCEPT ![s].phase = "replied",
                                                   ![s].raised = 1]
              ELSE /\ said' = said
                   /\ handlers' = [handlers EXCEPT ![s].phase = "escaped",
                                                   ![s].raised = 2]
        /\ UNCHANGED <<config, budget, conversation_contexts, contexts, asks, normalizer,
                       posted, invoked, formatter>>

(***************************************************************************)
(* format_dataframe_for_slack, lines 65-121: the table block.  A string is *)
(* modelled by its number of characters: a column name and a cell are      *)
(* natural numbers, an absent (None) cell is the empty string.             *)
(***************************************************************************)
\* line 104: the length above which the table is cut
TableBuffer == 2900
\* line 107: the rows kept when the table is cut
MaxShownRows == 10
\* line 93: the longest cell rendered in full
MaxCellChars == 50
\* line 103: Slack's limit for the text of one block
SlackBlockLimit == 3000

RECURSIVE SumSeq(_)
SumSeq(ws) == IF ws = <<>> THEN 0 ELSE Head(ws) + SumSeq(Tail(ws))

\* the digits of str(n)
Digits(n) == IF n < 10 THEN 1 ELSE IF n < 100 THEN 2 ELSE 3

\* lines 72, 73, 97: len("| " + " | ".join(cells) + " |")
RowChars(cells) ==
    IF cells = <<>> THEN 4 ELSE 4 + SumSeq(cells) + 3 * (Len(cells) - 1)

\* len("\n".join(lines))
JoinChars(lines) ==
    IF lines = <<>> THEN 0 ELSE SumSeq(lines) + Len(lines) - 1

\* lines 82-85: a row cut or padded with "" to the number of columns
FitRow(row, n) ==
    IF Len(row) > n THEN SubSeq(row, 1, n)
    ELSE row \o [i \in 1..(n - Len(row)) |-> 0]

\* lines 91-94: a cell longer than 50 becomes its first 47 characters and "..."
CellChars(w) == IF w > MaxCellChars THEN 47 + 3 ELSE w

\* line 110: len("\n\n_Showing {max_rows} of {len(data_rows)} rows_")
NoteChars(max_rows, total) == 21 + Digits(max_rows) + Digits(total)

NotFormatted ==
    [run |-> FALSE, emitted |-> FALSE, full |-> 0, shown |-> 0, total |-> 0,
     note |-> FALSE, chars |-> 0]

\* no envelope
NoTable == [columns |-> <<>>, rows |-> <<>>]

\* lines 66-121: full is len(markdown_table) at line 101, chars the length of
\* the block text of line 119, shown and total the data rows in the block and
\* in data_rows, note whether the line "Showing N of M rows" was added
TableBlock(envelope, format_tables) ==
    IF envelope.columns = <<>> \/ envelope.rows = <<>> \/ ~format_tables
    THEN [NotFormatted EXCEPT !.run = TRUE]
    ELSE
    LET n == Len(envelope.columns)
        header_row == RowChars(envelope.columns)
        divider_row == RowChars([i \in 1..n |-> 3])
        data_rows == [i \in 1..Len(envelope.rows) |->
                        RowChars([j \in 1..n |->
                                     CellChars(FitRow(envelope.rows[i], n)[j])])]
        markdown_table == header_row + 1 + divider_row + 1 + JoinChars(data_rows)
        max_rows == IF MaxShownRows < Len(data_rows) THEN MaxShownRows
                    ELSE Len(data_rows)
        truncated_table ==
            header_row + 1 + divider_row + 1 + JoinChars(SubSeq(data_rows, 1, max_rows))
            + (IF max_rows < Len(data_rows)
               THEN NoteChars(max_rows, Len(data_rows)) ELSE 0)
    IN  IF markdown_table > TableBuffer
        THEN [run |-> TRUE, emitted |-> TRUE, full |-> markdown_table,
              shown |-> max_rows, total |-> Len(data_rows),
              note |-> max_rows < Len(data_rows), chars |-> 3 + truncated_table + 3]
        ELSE [run |-> TRUE, emitted |-> TRUE, full |-> markdown_table,
              shown |-> Len(data_rows), total |-> Len(data_rows),
              note |-> FALSE, chars |-> 3 + markdown_table + 3]

\* the envelopes handed to the formatter: names and cells of a few lengths,
\* rows as long as the header, shorter or longer
NameChars == {6, 40}
CellLengths == {0, 8, 50, 80}

Envelopes ==
    {[columns |-> [i \in 1..n |-> name],
      rows |-> [i \in 1..k |-> [j \in 1..m |-> cell]]] :
        n \in 1..MaxTableCols, name \in NameChars, k \in 0..MaxTableRows,
        m \in 1..(MaxTableCols + 1), cell \in CellLengths}

\* format_dataframe_for_slack applied to data
Format ==
    /\ ~table_block.run
    /\ table_block' = TableBlock(data, FORMAT_TABLES)
    /\ UNCHANGED <<config, budget, conversation_contexts, contexts, asks, normalizer,
                   posted, handlers, said, invoked, FORMAT_TABLES, data>>

\* the formatter is not in use
FormatterIdle ==
    /\ FORMAT_TABLES = TRUE
    /\ data = NoTable
    /\ table_block = NotFormatted

\* process_query_result applied to raw_result
Normalize ==
    /\ formatted_result = NotRun
    /\ formatted_result' = process_query_result(raw_result)
    /\ UNCHANGED <<config, budget, conversation_contexts, contexts, asks, raw_result,
                   transport>>

(***************************************************************************)
(* Specifications.                                                         *)
(***************************************************************************)
InitState ==
    /\ MAINTAIN_CONTEXT \in BOOLEAN
    /\ MAX_RETRIES \in 1..MaxRetries
    /\ conversation_contexts = [u \in Users |-> 0]
    /\ contexts = [i \in ContextIds |-> Unborn]
    /\ asks = [s \in Slots |-> IdleAsk]
    /\ handlers = [s \in Slots |-> NoHandler]
    /\ said = <<>>
    /\ invoked = 0

\* users asking one after another, the remote answering plainly
Init ==
    /\ InitState
    /\ api = "basic"
    /\ callers = Users
    /\ budget = MaxAsks
    /\ raw_result = BarePayload
    /\ formatted_result = NotRun
    /\ posted = NoSlackMessage
    /\ FormatterIdle

\* one ask, the remote answering with every shape
InitPoller ==
    /\ InitState
    /\ api = "full"
    /\ callers = {"U1"}
    /\ budget = 1
    /\ raw_result = BarePayload
    /\ formatted_result = NotRun
    /\ posted = NoSlackMessage
    /\ FormatterIdle

\* the normalizer alone, on every payload within the bounds
InitNormalizer ==
    /\ InitState
    /\ MAINTAIN_CONTEXT
    /\ MAX_RETRIES = 1
    /\ api = "basic"
    /\ callers = {}
    /\ budget = 0
    /\ raw_result \in Payloads
    /\ formatted_result = NotRun
    /\ posted = NoSlackMessage
    /\ FormatterIdle

Next ==
    \/ \E u \in Users : SeqBegin(u)
    \/ \E s \in Slots : CreateTurn(s)
    \/ \E s \in Slots : Attempt(s)
    \/ \E s \in Slots : Exhausted(s)
    \/ \E s \in Slots : Return(s)

NextNormalizer == Normalize

\* calls of genie_query made by threads that run side by side
InitConcurrent ==
    /\ InitState
    /\ MAX_RETRIES = 1
    /\ api = "plain"
    /\ callers = Users
    /\ budget = MaxAsks
    /\ raw_result = BarePayload
    /\ formatted_result = NotRun
    /\ posted = NoSlackMessage
    /\ FormatterIdle

\* one Slack message, delivered to the listeners as often as the budget allows
InitTransport ==
    /\ InitState
    /\ MAX_RETRIES = 1
    /\ api = "plain"
    /\ callers = {"U1"}
    /\ budget = MaxAsks
    /\ raw_result = BarePayload
    /\ formatted_result = NotRun
    /\ posted \in SlackMessages
    /\ FormatterIdle

NextTransport ==
    \/ \E s \in Slots, type \in {"message", "app_mention"} : Deliver(s, type)
    \/ \E s \in Slots : Resolve(s)
    \/ \E s \in Slots : CreateTurn(s)
    \/ \E s \in Slots : Attempt(s)
    \/ \E s \in Slots : Check(s)
    \/ \E s \in Slots : Update(s)
    \/ \E s \in Slots : Reply(s)

\* one Slack message, delivered once; the remote answers as in Spec
InitHandler ==
    /\ InitState
    /\ MAX_RETRIES = 1
    /\ api = "basic"
    /\ callers = {"U1"}
    /\ budget = 1
    /\ raw_result = BarePayload
    /\ formatted_result = NotRun
    /\ posted \in SlackMessages
    /\ FormatterIdle

\* the steps of a listener that has been called
HandlerStep ==
    \/ \E s \in Slots : Resolve(s)
    \/ \E s \in Slots : CreateTurn(s)
    \/ \E s \in Slots : Attempt(s)
    \/ \E s \in Slots : Exhausted(s)
    \/ \E s \in Slots : Check(s)
    \/ \E s \in Slots : Update(s)
    \/ \E s \in Slots : Reply(s)

NextHandler ==
    \/ \E s \in Slots, type \in {"message", "app_mention"} : Deliver(s, type)
    \/ HandlerStep

\* one envelope handed to format_dataframe_for_slack
InitFormatter ==
    /\ InitState
    /\ MAINTAIN_CONTEXT = TRUE
    /\ MAX_RETRIES = 1
    /\ api = "plain"
    /\ callers = {}
    /\ budget = 0
    /\ raw_result = BarePayload
    /\ formatted_result = NotRun
    /\ posted = NoSlackMessage
    /\ FORMAT_TABLES \in BOOLEAN
    /\ data \in Envelopes
    /\ table_block = NotFormatted

NextFormatter == Format

NextConcurrent ==
    \/ \E s \in Slots, u \in Users : Lookup(s, u)
    \/ \E s \in Slots : Resolve(s)
    \/ \E s \in Slots : CreateTurn(s)
    \/ \E s \in Slots : Attempt(s)
    \/ \E s \in Slots : Check(s)
    \/ \E s \in Slots : Update(s)

Spec == Init /\ [][Next]_vars
SpecPoller == InitPoller /\ [][Next]_vars
SpecNormalizer == InitNormalizer /\ [][NextNormalizer]_vars
SpecConcurrent == InitConcurrent /\ [][NextConcurrent]_vars
SpecFormatter == InitFormatter /\ [][NextFormatter]_vars
\* a listener's thread keeps running until the listener returns
SpecHandler == InitHandler /\ [][NextHandler]_vars /\ WF_vars(HandlerStep)
SpecTransport == InitTransport /\ [][NextTransport]_vars

(***************************************************************************)
(* Properties.                                                             *)
(***************************************************************************)
\* query_data has returned to genie_query
Ended(a) == a.pc \in {"returned", "done"}

IsFailure(outcome) == "error" \in outcome.keys

EnvelopeKeys == {"text", "query_description", "sql_query", "columns", "rows"}

\* how often the ask made the request op
NumCalls(a, op) == Cardinality({i \in DOMAIN a.log : a.log[i].op = op})

LastCall(a) == a.log[Len(a.log)].op

\* the latest status check answered with a completed turn
CompletedTurn(a) ==
    /\ a.last_message.ok
    /\ a.last_message.v.t = "obj"
    /\ IsComplete(StatusOf(a.last_message.v))
    /\ a.last_message.v.attachments.t = "list"

Attachments(a) == a.last_message.v.attachments.items

\* the handle stored for a user in conversation_contexts
StoredHandle(user_id) ==
    IF conversation_contexts[user_id] = 0 THEN None
    ELSE contexts[conversation_contexts[user_id]]

\* C1: no exception leaves genie_query or query_data; every returned outcome
\* is a dictionary with conversation_id, message_id and a complete result
\* envelope; whenever the ask failed (the turn could not be created, the
\* iteration that ended the loop raised, or the attempts ran out) the
\* outcome is a Failure with a non-empty error description that the
\* envelope's text contains.
C1_NoExceptionEscapes ==
    \A s \in Slots :
        LET a == asks[s]
            failed == \/ a.message_id = None
                      \/ a.raised # NoExc
                      \/ ~LoopRuns(a.attempt, MAX_RETRIES)
        IN  /\ a.pc # "escaped"
            /\ Ended(a) =>
                  /\ {"conversation_id", "message_id", "result"} \subseteq a.result.keys
                  /\ DOMAIN a.result.result = EnvelopeKeys
                  /\ failed => IsFailure(a.result)
                  /\ IsFailure(a.result) =>
                        /\ Len(a.result.error) > 0
                        /\ Contains(a.result.result.text, a.result.error)
                        /\ a.result.message_id = None

\* C1 witness: an ask that failed inside the normalizer and returned a Failure
C1_Witness ==
    \E s \in Slots :
        /\ asks[s].pc = "done"
        /\ asks[s].last_results.ok
        /\ ~process_query_result(asks[s].last_results.v).ok
        /\ IsFailure(asks[s].result)

\* C2 (as claimed): with context retention, after an ask that returned a
\* Failure the handle stored for its user equals the handle stored when the
\* ask was made.
C2_FailureKeepsHandle ==
    \A s \in Slots :
        (MAINTAIN_CONTEXT /\ asks[s].pc = "done" /\ IsFailure(asks[s].result))
            => StoredHandle(asks[s].user_id) = asks[s].arg

\* C3: with context retention, once a user's stored handle is non-null no
\* step changes it.
C3_HandleWrittenOnce ==
    [][MAINTAIN_CONTEXT =>
          \A u \in Users : StoredHandle(u) # None => StoredHandle(u)' = StoredHandle(u)]_vars

\* C3 witness: a later ask of a user whose handle was already set has completed
C3_Witness ==
    /\ MAINTAIN_CONTEXT
    /\ \E s \in Slots :
          /\ asks[s].pc = "done"
          /\ asks[s].arg # None
          /\ StoredHandle(asks[s].user_id) = asks[s].arg

\* every status check of the ask reported a non-terminal status
AllNonTerminal(a) == a.checked # "<none>" /\ Before(a) = "nonterminal"

TimedOut(a) ==
    /\ NumCalls(a, "get_query_message") = MAX_RETRIES
    /\ IsFailure(a.result)
    /\ a.result.error = TimeoutError(MAX_RETRIES).msg

\* a result fetch of the iteration that ended the loop gave a usable payload
FetchSucceeded(a) ==
    a.last_results.ok /\ process_query_result(a.last_results.v).ok

\* C4 (as claimed): if every status check reports a non-terminal status the
\* ask makes exactly max_retries checks and returns the timeout Failure.
C4_AlwaysTimesOut ==
    \A s \in Slots :
        (Ended(asks[s]) /\ AllNonTerminal(asks[s])) => TimedOut(asks[s])

\* C4 (amended): if every status check reports a non-terminal status and no
\* opportunistic result fetch succeeds, the ask makes exactly max_retries
\* checks and returns the timeout Failure.
C4_TimesOutUnlessFetched ==
    \A s \in Slots :
        (Ended(asks[s]) /\ AllNonTerminal(asks[s]) /\ ~FetchSucceeded(asks[s]))
            => TimedOut(asks[s])

\* C4 witness: a timeout after opportunistic fetches that failed
C4_Witness ==
    \E s \in Slots :
        /\ Ended(asks[s]) /\ AllNonTerminal(asks[s])
        /\ NumCalls(asks[s], "get_query_results") > 0
        /\ TimedOut(asks[s])

\* C5 (as claimed): when the completed turn has a plain-text attachment at
\* any position, the ask never called get_query_results and returns the
\* text with empty tabular fields.
C5_TextNeverFetches ==
    \A s \in Slots :
        LET a == asks[s]
        IN  (Ended(a) /\ CompletedTurn(a)) =>
               \A i \in 1..Len(Attachments(a)) :
                  IsTextAttachment(Attachments(a)[i]) =>
                     /\ NumCalls(a, "get_query_results") = 0
                     /\ a.result = Success(a.conversation_id, a.message_id,
                            [EmptyEnvelope EXCEPT
                                !.text = Attachments(a)[i].text.content.s])

\* a query attachment whose generated query text holds the placeholder token
PlaceholderQuery(att) ==
    /\ IsQueryAttachment(att)
    /\ \E i \in 1..Len(SqlOf(att)) : SqlOf(att)[i] = PlaceholderToken

Clarification(a, att) ==
    Success(a.conversation_id, a.message_id,
            [EmptyEnvelope EXCEPT !.text = ClarificationText,
                                  !.query_description = DescriptionOf(att),
                                  !.sql_query = SqlOf(att)])

\* C6 (as claimed): when the completed turn has a query attachment with the
\* placeholder, the ask never called get_query_results and returns the
\* clarification message with that attachment's description and query.
C6_PlaceholderNeverFetches ==
    \A s \in Slots :
        LET a == asks[s]
        IN  (Ended(a) /\ CompletedTurn(a)) =>
               \A i \in 1..Len(Attachments(a)) :
                  PlaceholderQuery(Attachments(a)[i]) =>
                     /\ NumCalls(a, "get_query_results") = 0
                     /\ a.result = Clarification(a, Attachments(a)[i])

\* C6 (amended): when the first text-or-query attachment of the completed
\* turn is a query attachment with the placeholder, the attempt that sees the
\* completion makes no get_query_results call (so an ask that completes at
\* its first status check makes none at all) and the ask returns the
\* clarification message with that attachment's description and query.
C6_FirstPlaceholderShortCircuits ==
    \A s \in Slots :
        LET a == asks[s]
            first == FirstHandled(Attachments(a))
        IN  (Ended(a) /\ CompletedTurn(a) /\ first # 0
                /\ PlaceholderQuery(Attachments(a)[IF first = 0 THEN 1 ELSE first])) =>
               /\ a.last_results = NotCalled
               /\ LastCall(a) = "get_query_message"
               /\ NumCalls(a, "get_query_message") = 1
                     => NumCalls(a, "get_query_results") = 0
               /\ a.result = Clarification(a, Attachments(a)[first])

\* C6 witness: a clarification returned by an ask whose earlier attempts fetched
C6_Witness ==
    \E s \in Slots :
        LET a == asks[s]
        IN  /\ Ended(a) /\ CompletedTurn(a)
            /\ FirstHandled(Attachments(a)) # 0
            /\ PlaceholderQuery(Attachments(a)[FirstHandled(Attachments(a))])
            /\ NumCalls(a, "get_query_results") > 0
            /\ a.result.result.text = ClarificationText

\* C7 (as claimed): every row of a returned envelope is as wide as columns.
C7_RowsMatchColumns ==
    formatted_result.ok =>
        \A i \in 1..Len(formatted_result.v.rows) :
            Len(formatted_result.v.rows[i]) = Len(formatted_result.v.columns)

\* C8: a status check that reports ERROR ends the ask at that attempt: the
\* check is the last request made, and the outcome is a Failure whose
\* description contains the remote error_message, or "Unknown error
\* occurred" when there is none.
C8_ErrorEndsAsk ==
    \A s \in Slots :
        LET a == asks[s]
        IN  a.checked = "ERROR" =>
               /\ Ended(a)
               /\ LastCall(a) = "get_query_message"
               /\ IsFailure(a.result)
               /\ Contains(a.result.error,
                           IF a.last_message.v.error_message.t = "absent"
                           THEN <<"Unknown error occurred">>
                           ELSE a.last_message.v.error_message.s)

\* C8 witness: ERROR with "quota exceeded" reported after an earlier poll
C8_Witness ==
    \E s \in Slots :
        /\ asks[s].pc = "done"
        /\ asks[s].checked = "ERROR"
        /\ asks[s].attempt > 0
        /\ Contains(asks[s].result.error, <<"quota exceeded">>)

\* the ask's status checks raised a transport error on attempts 1 and 2 and
\* answered with a completed turn on attempt 3
TwoErrorsThenComplete(a) ==
    /\ Ended(a)
    /\ a.attempt = 2
    /\ a.before = "raised"
    /\ a.last_message.ok
    /\ a.last_message.v.t = "obj"
    /\ IsComplete(StatusOf(a.last_message.v))

\* what an ask returns whose first status check gives the same answers
NoFailureCase(a) ==
    LoopBody(0, a.conversation_id, a.message_id, a.last_message, a.last_results)

\* C9: with max_retries >= 3, transport errors of the status check on
\* attempts 1 and 2 do not end the ask, and when attempt 3 reports a
\* completion from which the ask without errors returns a Success, the ask
\* returns that same Success (conversation id, message id, envelope).
C9_TransientErrorsTransparent ==
    \A s \in Slots :
        LET a == asks[s]
        IN  /\ (MAX_RETRIES >= 3 /\ a.checked = "<raised>" /\ a.attempt <= 2
                   /\ NumCalls(a, "get_query_message") <= 2
                   /\ a.before \in {"<none>", "raised"})
                  => a.pc = "polling"
            /\ (TwoErrorsThenComplete(a) /\ NoFailureCase(a).kind = "return")
                  => /\ ~IsFailure(a.result)
                     /\ a.result = NoFailureCase(a).outcome

\* C9 witness: two transport errors, then a completed query turn with a table
C9_Witness ==
    \E s \in Slots :
        /\ TwoErrorsThenComplete(asks[s])
        /\ ~IsFailure(asks[s].result)
        /\ Len(asks[s].result.result.rows) > 0

\* C10 (as claimed): an exception raised by any step of an iteration other
\* than the status check ends the ask.
C10_OnlyStatusCheckRetried ==
    \A s \in Slots :
        (asks[s].raised # NoExc /\ asks[s].checked # "<raised>") => Ended(asks[s])

\* C10 (amended): the loop retries a transport error raised by the status
\* check or by the result fetch of the COMPLETE/COMPLETED branch, and nothing
\* else: any other exception raised in an iteration ends the ask at once with
\* a Failure carrying its text.
C10_OnlyTransportRetried ==
    \A s \in Slots :
        LET a == asks[s]
        IN  /\ (a.pc = "polling" /\ a.raised # NoExc) =>
                  /\ IsInstance(a.raised, "RequestException")
                  /\ \/ a.checked = "<raised>"
                     \/ IsComplete(a.checked) /\ LastCall(a) = "get_query_results"
            /\ (a.raised # NoExc /\ ~IsInstance(a.raised, "RequestException")) =>
                  /\ Ended(a)
                  /\ IsFailure(a.result)
                  /\ a.result.error = a.raised.msg

\* C10 witness: polling goes on after the result fetch of a completed turn
\* raised a transport error
C10_Witness ==
    \E s \in Slots :
        /\ asks[s].pc = "polling"
        /\ IsComplete(asks[s].checked)
        /\ asks[s].raised = HTTPError
        /\ LastCall(asks[s]) = "get_query_results"

\* C11: an ask that has passed its first request made exactly one
\* turn-creating request, as its first request: start_conversation when the
\* handle passed in is null, add_message against that handle otherwise; every
\* status check and result fetch carries the conversation handle and the turn
\* id which that request established.
C11_OneTurnRequestFirst ==
    \A s \in Slots :
        LET a == asks[s]
        IN  /\ a.pc \in {"polling", "returned", "done"} => Len(a.log) >= 1
            /\ a.log # <<>> =>
                  /\ a.log[1] = Call(IF a.arg = None THEN "start_conversation"
                                     ELSE "add_message", a.arg, None)
                  /\ \A i \in 2..Len(a.log) :
                        /\ a.log[i].op \notin {"start_conversation", "add_message"}
                        /\ a.log[i].op \in {"get_query_message", "get_query_results"} =>
                              /\ a.created.ok
                              /\ a.log[i].conversation_id =
                                    (IF a.arg = None THEN a.created.v.conversation_id
                                     ELSE a.arg)
                              /\ a.log[i].message_id = a.created.v.message_id

\* C11 witness: an ask on an existing handle that polled and fetched results
C11_Witness ==
    \E s \in Slots :
        /\ asks[s].pc = "done"
        /\ asks[s].arg # None
        /\ asks[s].log[1].op = "add_message"
        /\ NumCalls(asks[s], "get_query_results") > 0

\* C12: with context retention, when an ask that was passed a null handle has
\* returned a Success, the handle stored for its user is the conversation
\* handle of that outcome; and whenever a handle is stored for a user, the
\* turn-creating request of that user's next ask is add_message against
\* exactly that handle (never start_conversation).
C12_LearnedHandleReused ==
    /\ [](\A s \in Slots :
            (MAINTAIN_CONTEXT /\ asks[s].pc = "done" /\ ~IsFailure(asks[s].result)
                /\ asks[s].arg = None)
              => StoredHandle(asks[s].user_id) = asks[s].result.conversation_id)
    /\ [][\A s \in Slots :
            (MAINTAIN_CONTEXT /\ asks[s].pc = "resolved"
                /\ StoredHandle(asks[s].user_id) # None /\ asks'[s].log # <<>>)
              => asks'[s].log[1] =
                    Call("add_message", StoredHandle(asks[s].user_id), None)]_vars

\* C12 witness: a user's second ask added its message to the conversation
\* stored for the user by the first ask
C12_Witness ==
    \E s \in Slots :
        /\ MAINTAIN_CONTEXT
        /\ budget = 0
        /\ asks[s].pc = "polling"
        /\ asks[s].log[1] = Call("add_message", "c2", None)
        /\ StoredHandle(asks[s].user_id) = "c2"

\* C13: without context retention the mapping conversation_contexts stays
\* empty and every ask is passed a null handle and creates its turn with
\* start_conversation (never add_message); with retention, once a user has an
\* entry in the mapping the entry stays the same context object and every
\* further ask of that user resolves to it.
C13_RetentionPolicy ==
    /\ [](~MAINTAIN_CONTEXT =>
            /\ conversation_contexts = [u \in Users |-> 0]
            /\ \A s \in Slots :
                  /\ asks[s].arg = None
                  /\ \A i \in 1..Len(asks[s].log) : asks[s].log[i].op # "add_message"
                  /\ asks[s].log # <<>> => asks[s].log[1].op = "start_conversation")
    /\ [][MAINTAIN_CONTEXT =>
            \A u \in Users :
                conversation_contexts[u] # 0 =>
                   /\ conversation_contexts'[u] = conversation_contexts[u]
                   /\ \A s \in Slots :
                         (asks[s].pc # "resolved" /\ asks'[s].pc = "resolved"
                             /\ asks'[s].user_id = u)
                           => asks'[s].context = conversation_contexts[u]]_vars

\* C13 witness: without retention a user's second ask started a conversation
\* again, on a second context object
C13_Witness ==
    \E s \in Slots :
        /\ ~MAINTAIN_CONTEXT
        /\ asks[s].pc = "done"
        /\ asks[s].context = 2
        /\ asks[s].log[1].op = "start_conversation"
        /\ contexts[1] # None

\* the two variants of an outcome
SuccessShape(outcome) ==
    /\ "error" \notin outcome.keys
    /\ {"conversation_id", "message_id", "result"} \subseteq outcome.keys
    /\ outcome.conversation_id # None
    /\ outcome.message_id # None
    /\ DOMAIN outcome.result = EnvelopeKeys

FailureShape(outcome) ==
    /\ {"conversation_id", "message_id", "result", "error"} \subseteq outcome.keys
    /\ outcome.message_id = None
    /\ DOMAIN outcome.result = EnvelopeKeys

\* C16: every outcome query_data returns is a Success (no error, non-null
\* conversation id and message id, an envelope) or a Failure (an error, a
\* null message id, an envelope), never both and never neither; the
\* envelope always has text, query_description, sql_query, columns and rows.
C16_ExactlyOneVariant ==
    \A s \in Slots :
        Ended(asks[s]) =>
            /\ SuccessShape(asks[s].result) \/ FailureShape(asks[s].result)
            /\ ~(SuccessShape(asks[s].result) /\ FailureShape(asks[s].result))
            /\ asks[s].result.keys \subseteq
                  {"conversation_id", "message_id", "result", "error", "note"}

\* C16 witness: a Success with a note (results fetched while still pending)
\* whose envelope tells that there is no data
C16_Witness ==
    \E s \in Slots :
        /\ Ended(asks[s])
        /\ SuccessShape(asks[s].result)
        /\ "note" \in asks[s].result.keys
        /\ asks[s].result.result.text = NoDataText

\* the payload reports SUCCEEDED and its result section (a JSON object, or
\* left out) has no data rows: data_typed_array is missing, null or empty
SucceededWithoutRows(payload) ==
    LET sr == payload.statement_response
    IN  /\ sr.t = "obj"
        /\ sr.status.t = "obj"
        /\ sr.status.state = Str("SUCCEEDED")
        /\ \/ sr.result.t = "absent"
           \/ /\ sr.result.t = "obj"
              /\ \/ sr.result.data_typed_array.t \in {"absent", "null"}
                 \/ /\ sr.result.data_typed_array.t = "list"
                    /\ sr.result.data_typed_array.items = <<>>

\* C17: for a payload that reports SUCCEEDED and has no data rows,
\* process_query_result returns the fixed no-data guidance text with empty
\* columns and rows, whatever the manifest section holds.
C17_NoDataGuidance ==
    (formatted_result # NotRun /\ SucceededWithoutRows(raw_result)) =>
        /\ formatted_result.ok
        /\ formatted_result.v.text = NoDataText
        /\ formatted_result.v.columns = <<>>
        /\ formatted_result.v.rows = <<>>
        /\ formatted_result.v.query_description = <<>>
        /\ formatted_result.v.sql_query = <<>>

\* C17 witness: SUCCEEDED with a two-column schema and an empty data array
C17_Witness ==
    /\ formatted_result # NotRun
    /\ SucceededWithoutRows(raw_result)
    /\ raw_result.statement_response.manifest.t = "obj"
    /\ raw_result.statement_response.manifest.schema.t = "obj"
    /\ raw_result.statement_response.manifest.schema.columns.t = "list"
    /\ Len(raw_result.statement_response.manifest.schema.columns.items) = 2
    /\ raw_result.statement_response.result.t = "obj"
    /\ raw_result.statement_response.result.data_typed_array.t = "list"

\* the payload (its status section an object, or left out) has a schema of
\* exactly one column and a data array of exactly one row that holds exactly
\* one value
OneByOne(payload) ==
    LET sr == payload.statement_response
    IN  /\ sr.t = "obj"
        /\ sr.status.t \in {"absent", "obj"}
        /\ sr.manifest.t = "obj"
        /\ sr.manifest.schema.t = "obj"
        /\ sr.manifest.schema.columns.t = "list"
        /\ Len(sr.manifest.schema.columns.items) = 1
        /\ sr.result.t = "obj"
        /\ sr.result.data_typed_array.t = "list"
        /\ Len(sr.result.data_typed_array.items) = 1
        /\ sr.result.data_typed_array.items[1].t = "obj"
        /\ sr.result.data_typed_array.items[1].values.t = "list"
        /\ Len(sr.result.data_typed_array.items[1].values.items) = 1

\* the column name and the value of such a payload, as the code reads them
OnlyColumn(payload) ==
    LET f == payload.statement_response.manifest.schema.columns.items[1]
    IN  IF f.has_name THEN f.name ELSE ""

OnlyValue(payload) ==
    LET v == payload.statement_response.result.data_typed_array.items[1].values.items[1]
    IN  IF v.has_str THEN v.str ELSE None

\* the payload has more than one schema column or more than one data row
WiderOrLonger(payload) ==
    LET sr == payload.statement_response
    IN  /\ sr.t = "obj"
        /\ \/ /\ sr.manifest.t = "obj"
              /\ sr.manifest.schema.t = "obj"
              /\ sr.manifest.schema.columns.t = "list"
              /\ Len(sr.manifest.schema.columns.items) > 1
           \/ /\ sr.result.t = "obj"
              /\ sr.result.data_typed_array.t = "list"
              /\ Len(sr.result.data_typed_array.items) > 1

\* C18 (as claimed): a payload of one column c and one row with the single
\* value v gives columns [c], rows [[v]] and the text "Result: c = v"
\* exactly; a payload with more than one column or more than one row gives
\* an empty text.
C18_ScalarTextExact ==
    formatted_result # NotRun =>
        /\ OneByOne(raw_result) =>
              /\ formatted_result.ok
              /\ formatted_result.v.columns = <<OnlyColumn(raw_result)>>
              /\ formatted_result.v.rows = <<(<<OnlyValue(raw_result)>>)>>
              /\ formatted_result.v.text =
                    <<"Result: ", OnlyColumn(raw_result), " = ", OnlyValue(raw_result)>>
        /\ (WiderOrLonger(raw_result) /\ formatted_result.ok) =>
              formatted_result.v.text = <<>>

\* C18 (amended): a payload of one column c and one row with the single
\* value v gives columns [c], rows [[v]] and the text "Result: c = v"
\* followed by a newline; whenever the returned envelope has more than one
\* column or more than one row its text is empty.
C18_ScalarTextLine ==
    formatted_result # NotRun =>
        /\ OneByOne(raw_result) =>
              /\ formatted_result.ok
              /\ formatted_result.v.columns = <<OnlyColumn(raw_result)>>
              /\ formatted_result.v.rows = <<(<<OnlyValue(raw_result)>>)>>
              /\ formatted_result.v.text =
                    <<"Result: ", OnlyColumn(raw_result), " = ", OnlyValue(raw_result),
                      "\n">>
        /\ (formatted_result.ok
               /\ (Len(formatted_result.v.columns) > 1 \/ Len(formatted_result.v.rows) > 1))
              => formatted_result.v.text = <<>>

\* C18 witness: the payload with column "total" and the single value "42"
C18_Witness ==
    /\ formatted_result # NotRun
    /\ OneByOne(raw_result)
    /\ formatted_result.ok
    /\ formatted_result.v.columns = <<"total">>
    /\ formatted_result.v.rows = <<(<<"42">>)>>

\* none of the sections the normalizer reads is in the payload
NoStructures(payload) ==
    \/ payload.statement_response.t = "absent"
    \/ /\ payload.statement_response.t = "obj"
       /\ payload.statement_response.status.t = "absent"
       /\ payload.statement_response.manifest.t = "absent"
       /\ payload.statement_response.result.t = "absent"

\* C19 (as claimed): process_query_result returns an envelope for every
\* payload, and the empty envelope when none of the expected sections is
\* present.
C19_NeverRaises ==
    formatted_result # NotRun =>
        /\ formatted_result.ok
        /\ NoStructures(raw_result) => formatted_result.v = EmptyEnvelope

\* C14 (as claimed): with context retention, when two calls for the same
\* user, both passed a null handle, have returned and the one that returned
\* first had obtained a conversation handle, the handle stored for the user
\* is that handle.
C14_FirstCompletedWins ==
    \A s, t \in Slots :
        (/\ MAINTAIN_CONTEXT
         /\ asks[s].pc = "done" /\ asks[t].pc = "done"
         /\ asks[s].user_id = asks[t].user_id
         /\ asks[s].arg = None /\ asks[t].arg = None
         /\ asks[s].order < asks[t].order
         /\ asks[s].result.conversation_id # None)
        => StoredHandle(asks[s].user_id) = asks[s].result.conversation_id

\* the users other than the one whose call is in slot s after the step
Others(s) == {u \in Users : u # asks'[s].user_id}

\* C15: calls for different users never hold the same context object, and
\* a step of a call leaves alone every other call, the mapping entry and the
\* stored handle of every other user and every context object that a call
\* of another user holds; the handle a call sends its requests against is the
\* one held by its own context object.
C15_UsersIndependent ==
    /\ [](\A s, t \in Slots :
            (asks[s].context # 0 /\ asks[t].context # 0
                /\ asks[s].user_id # asks[t].user_id)
              => asks[s].context # asks[t].context)
    /\ [](\A u, v \in Users :
            (u # v /\ conversation_contexts[u] # 0)
              => conversation_contexts[u] # conversation_contexts[v])
    /\ [][\A s \in Slots :
            asks'[s] # asks[s] =>
               /\ \A t \in Slots \ {s} : asks'[t] = asks[t]
               /\ \A u \in Others(s) :
                     /\ conversation_contexts'[u] = conversation_contexts[u]
                     /\ StoredHandle(u)' = StoredHandle(u)
               /\ \A t \in Slots :
                     (asks[t].context # 0 /\ asks[t].user_id \in Others(s))
                       => contexts'[asks[t].context] = contexts[asks[t].context]
               /\ (asks[s].pc = "resolved" /\ asks'[s].log # <<>>)
                     => asks'[s].arg = contexts[asks[s].context]]_vars

\* C15 witness: calls of two users in their poll loops at the same time,
\* each on its own conversation
C15_Witness ==
    \E s, t \in Slots :
        /\ asks[s].user_id = "U1" /\ asks[t].user_id = "U2"
        /\ asks[s].pc = "polling" /\ asks[t].pc = "polling"
        /\ asks[s].conversation_id = "c1" /\ asks[t].conversation_id = "c2"

\* C20 (as claimed): however often the posted message is delivered, as a
\* message event or as an app_mention event, genie_query is called at most
\* once for it.
C20_AtMostOneQuery == invoked <= 1

\* C21: in every ask each status check comes directly after one sleep, so the
\* first request after the turn-creating one is a sleep; the ask has slept as
\* often as it has checked the status; and an ask whose turn-creating request
\* failed has not slept at all.
C21_SleepBeforeEachCheck ==
    \A s \in Slots :
        LET a == asks[s]
        IN  /\ \A i \in DOMAIN a.log :
                  a.log[i].op = "get_query_message" =>
                     /\ i > 2
                     /\ a.log[i - 1].op = "sleep"
                     /\ a.log[i - 2].op # "sleep"
            /\ \A i \in DOMAIN a.log :
                  a.log[i].op = "sleep" =>
                     i < Len(a.log) /\ a.log[i + 1].op = "get_query_message"
            /\ NumCalls(a, "sleep") = NumCalls(a, "get_query_message")
            /\ (a.created # NotCalled /\ ~a.created.ok) => NumCalls(a, "sleep") = 0

\* C21 witness: an ask that ended after three status checks
C21_Witness ==
    \E s \in Slots :
        /\ Ended(asks[s])
        /\ NumCalls(asks[s], "get_query_message") = 3
        /\ NumCalls(asks[s], "sleep") = 3

\* the latest iteration fetched the results although its status check did
\* not report a completed turn
FetchedWhileIncomplete(a) ==
    /\ Len(a.log) > 0
    /\ LastCall(a) = "get_query_results"
    /\ ~IsComplete(a.checked)

\* C22 (as claimed): a result fetch while the turn is not complete is made
\* only at the fifth status check or later and only under the status
\* IN_PROGRESS, PENDING or RUNNING; and when that fetch succeeds the ask
\* returns a Success whose note records the status.
C22_OpportunisticFetch ==
    \A s \in Slots :
        LET a == asks[s]
        IN  FetchedWhileIncomplete(a) =>
               /\ a.checked \in {"IN_PROGRESS", "PENDING", "RUNNING"}
               /\ NumCalls(a, "get_query_message") >= 5
               /\ a.last_results.ok =>
                     /\ Ended(a)
                     /\ ~IsFailure(a.result)
                     /\ "note" \in a.result.keys
                     /\ a.result.note =
                           <<"Results retrieved while status was '", a.checked, "'">>

\* when and under which status the fetch is made (the part of C22 that holds)
C22_FetchOnlyLate ==
    \A s \in Slots :
        LET a == asks[s]
        IN  FetchedWhileIncomplete(a) =>
               /\ a.checked \in {"IN_PROGRESS", "PENDING", "RUNNING"}
               /\ NumCalls(a, "get_query_message") >= 5

\* the latest iteration's opportunistic fetch failed: get_query_results raised,
\* or process_query_result raised on what it returned
OpportunisticFailed(a) ==
    /\ FetchedWhileIncomplete(a)
    /\ \/ ~a.last_results.ok
       \/ ~process_query_result(a.last_results.v).ok

\* C23: a failed opportunistic fetch raises nothing out of its iteration and
\* does not end the ask: the loop is at the next attempt, and when the
\* attempts have run out the ask returns the timeout Failure, never a Failure
\* describing the fetch.
C23_FailedFetchSwallowed ==
    \A s \in Slots :
        LET a == asks[s]
        IN  OpportunisticFailed(a) =>
               /\ a.raised = NoExc
               /\ a.attempt = NumCalls(a, "get_query_message")
               /\ a.pc = "polling" \/ (Ended(a) /\ TimedOut(a))
               /\ Ended(a) => a.attempt = MAX_RETRIES

\* C23 witness: the fetch of the last attempt returned a payload on which the
\* normalizer raised, and the ask ended as a timeout
C23_Witness ==
    \E s \in Slots :
        /\ OpportunisticFailed(asks[s])
        /\ asks[s].last_results.ok
        /\ Ended(asks[s])
        /\ TimedOut(asks[s])

\* C24: when the status check raises a transport error on an attempt before
\* the last one, the ask is polling at the next attempt; when it raises one on
\* the last attempt, the ask returns a Failure whose description is the text
\* of that error and not the timeout message.
C24_TransportErrorOfStatusCheck ==
    \A s \in Slots :
        LET a == asks[s]
            checks == NumCalls(a, "get_query_message")
        IN  (a.checked = "<raised>" /\ IsInstance(a.raised, "RequestException")) =>
               /\ checks < MAX_RETRIES =>
                     /\ a.pc = "polling"
                     /\ a.attempt = checks
               /\ checks = MAX_RETRIES =>
                     /\ Ended(a)
                     /\ IsFailure(a.result)
                     /\ a.result.error = a.raised.msg
                     /\ a.result.error # TimeoutError(MAX_RETRIES).msg
                     /\ a.result.result.text = <<"Error querying data: ">> \o a.raised.msg

\* C24 witness: transport errors on every attempt of an ask with at least
\* three attempts, ended by the one of the last attempt
C24_Witness ==
    \E s \in Slots :
        /\ MAX_RETRIES >= 3
        /\ Ended(asks[s])
        /\ asks[s].checked = "<raised>"
        /\ asks[s].before = "raised"
        /\ asks[s].result.error = ConnectionError.msg

\* the handle an ask knows best: the one it was called with, else the one its
\* start-conversation request returned, else none
BestKnownHandle(a) ==
    IF a.arg # None THEN a.arg
    ELSE IF a.created.ok THEN a.created.v.conversation_id
    ELSE None

\* C25: every Failure carries the best-known handle, and its handle is null
\* exactly when the ask was called with a null handle and its
\* start-conversation request failed.
C25_FailureCarriesBestHandle ==
    \A s \in Slots :
        LET a == asks[s]
        IN  (Ended(a) /\ IsFailure(a.result)) =>
               /\ a.result.conversation_id = BestKnownHandle(a)
               /\ a.result.conversation_id = None <=> (a.arg = None /\ ~a.created.ok)

\* C25 witness: an ask called with a null handle whose start-conversation
\* request succeeded and whose polling failed afterwards
C25_Witness ==
    \E s \in Slots :
        /\ Ended(asks[s]) /\ IsFailure(asks[s].result)
        /\ asks[s].arg = None
        /\ asks[s].created.ok
        /\ NumCalls(asks[s], "get_query_message") > 0
        /\ asks[s].result.conversation_id = "c1"

\* C26 (as claimed): a posted message that carries a bot_id leads to no
\* genie_query call and to no say() call, whichever listener receives it.
C26_BotMessagesIgnored ==
    posted.bot_id # None => (invoked = 0 /\ said = <<>>)

\* C27 (as claimed): the question that handle_mentions has passed on to
\* genie_query is the text of the posted message with the bot mention
\* removed, and it is not empty.
C27_MentionRemovedFromQuestion ==
    \A s \in Slots :
        (handlers[s].listener = "handle_mentions" /\ asks[s].pc # "idle") =>
           /\ handlers[s].question = Strip(RemoveMentions(Strip(posted.text)))
           /\ handlers[s].question # <<>>

\* C28 (as claimed): the text of the table block stays within Slack's limit
\* of 3000 characters; when the full table is longer than 2900 characters at
\* most 10 data rows are in the block; and the note "Showing N of M rows" is
\* there exactly when rows were dropped.
C28_TableBlockCapped ==
    table_block.emitted =>
       /\ table_block.chars <= SlackBlockLimit
       /\ table_block.full > TableBuffer => table_block.shown <= MaxShownRows
       /\ table_block.note <=> table_block.shown < table_block.total

\* the row cap and the note (the part of C28 that holds)
C28_RowsCappedAndNoted ==
    table_block.emitted =>
       /\ table_block.full > TableBuffer => table_block.shown <= MaxShownRows
       /\ table_block.note <=> table_block.shown < table_block.total

\* C29 (as claimed): once a status check has reported COMPLETE or COMPLETED
\* the ask has ended with a Success, so that check was its last one, whatever
\* the attachments of the turn.
C29_CompletionEndsAsk ==
    \A s \in Slots :
        IsComplete(asks[s].checked) =>
           /\ Ended(asks[s])
           /\ ~IsFailure(asks[s].result)

\* the ask's turn-creating request was a start-conversation that succeeded
StartedConversation(a) == a.arg = None /\ a.created.ok

\* C30: with context retention and a user's asks made one after another: an
\* ask whose start-conversation request succeeded leaves the handle that
\* request returned stored for its user, whether the ask ended as a Success
\* or as a Failure; a stored handle is never replaced; and a
\* start-conversation request is made only while no handle is stored for the
\* user, every other ask adding its message to the stored handle.  So no
\* user has a second successful start-conversation request.
C30_OneConversationPerUser ==
    /\ [](MAINTAIN_CONTEXT =>
            \A s \in Slots :
               (asks[s].pc = "done" /\ StartedConversation(asks[s])) =>
                  /\ asks[s].created.v.conversation_id # None
                  /\ StoredHandle(asks[s].user_id) = asks[s].created.v.conversation_id)
    /\ [][MAINTAIN_CONTEXT =>
            /\ \A u \in Users :
                  StoredHandle(u) # None => StoredHandle(u)' = StoredHandle(u)
            /\ \A s \in Slots :
                  (asks[s].pc = "resolved" /\ asks'[s].log # <<>>) =>
                     IF StoredHandle(asks[s].user_id) = None
                     THEN asks'[s].log[1].op = "start_conversation"
                     ELSE asks'[s].log[1] =
                             Call("add_message", StoredHandle(asks[s].user_id), None)]_vars

\* C30 witness: an ask started a conversation, failed afterwards, and the
\* conversation's handle is stored for its user
C30_Witness ==
    \E s \in Slots :
        /\ MAINTAIN_CONTEXT
        /\ asks[s].pc = "done"
        /\ StartedConversation(asks[s])
        /\ IsFailure(asks[s].result)
        /\ StoredHandle(asks[s].user_id) = "c1"

\* the messages the listener of thread s has posted, in order
PostsBy(s) == SelectSeq(said, LAMBDA m : m.by = s)

\* handle_message was called in thread s
Called(s) == handlers[s].message # NoSlackMessage

\* C31 (as claimed): a message that handle_message accepts gets the
\* acknowledgement first and then, eventually, exactly one final reply; a
\* message it filters out gets no acknowledgement, no query and no reply.
C31_AckThenOneReply ==
    /\ [](\A s \in Slots :
            Called(s) =>
               IF Accepts(handlers[s].message)
               THEN /\ PostsBy(s) # <<>>
                    /\ PostsBy(s)[1].kind = "ack"
                    /\ Len(PostsBy(s)) <= 2
               ELSE PostsBy(s) = <<>> /\ asks[s].pc = "idle")
    /\ \A s \in Slots :
          (Called(s) /\ Accepts(handlers[s].message))
             ~> (handlers[s].phase = "replied" /\ Len(PostsBy(s)) = 2)

\* the reply to the outcome of the query of thread s, in the thread of the
\* message: the error text for an outcome with an error field, else the
\* text of the result (a fixed text when that is blank)
ReplyTo(s) ==
    [by |-> s,
     kind |-> IF IsFailure(asks[s].result) THEN "error" ELSE "result",
     text |-> IF IsFailure(asks[s].result)
              THEN <<"Sorry, I encountered an error: ">> \o asks[s].result.error
              ELSE IF Strip(asks[s].result.result.text) = <<>>
              THEN <<"Results received but no explanatory text was provided.">>
              ELSE asks[s].result.result.text,
     thread_ts |-> posted.ts]

\* the reply sent after the post of ReplyTo(s) raised
ReplyAfterException(s) ==
    [by |-> s, kind |-> "error",
     text |-> <<"Sorry, I encountered an error: ">> \o SlackApiError.msg,
     thread_ts |-> posted.ts]

AckOf(s) ==
    [by |-> s, kind |-> "ack",
     text |-> <<"Processing your query: '">> \o Strip(handlers[s].message.text)
              \o <<"'...">>,
     thread_ts |-> posted.ts]

\* C31 (amended): a message that handle_message filters out gets no post and
\* no query.  For a message it accepts, the acknowledgement is posted before
\* genie_query is called, and when that post raises nothing else happens.
\* After the acknowledgement exactly one final reply follows in the thread of
\* the message, eventually, unless say() raises for the reply and again for
\* the error message sent in its place: the error text when the outcome has
\* an error field, the text of the say() exception when posting the reply
\* raised, otherwise the result.
C31_AckThenReplyUnlessSayRaises ==
    /\ [](\A s \in Slots :
            LET h == handlers[s]
            IN  Called(s) =>
                   IF ~Accepts(h.message)
                   THEN /\ h.phase = "ignored"
                        /\ PostsBy(s) = <<>>
                        /\ asks[s].pc = "idle"
                   ELSE /\ h.phase \in {"asking", "replied", "escaped"}
                        /\ asks[s].pc # "idle" =>
                              PostsBy(s) # <<>> /\ PostsBy(s)[1] = AckOf(s)
                        /\ h.phase = "asking" => PostsBy(s) = <<AckOf(s)>>
                        /\ h.phase = "replied" =>
                              /\ asks[s].pc = "done"
                              /\ h.raised <= 1
                              /\ PostsBy(s) =
                                    <<AckOf(s), IF h.raised = 0 THEN ReplyTo(s)
                                                ELSE ReplyAfterException(s)>>
                        /\ h.phase = "escaped" =>
                              \/ /\ h.raised = 1
                                 /\ PostsBy(s) = <<>>
                                 /\ asks[s].pc = "idle"
                              \/ /\ h.raised = 2
                                 /\ PostsBy(s) = <<AckOf(s)>>)
    /\ \A s \in Slots :
          (handlers[s].phase = "asking")
             ~> \/ handlers[s].phase = "replied"
                \/ handlers[s].phase = "escaped" /\ handlers[s].raised = 2

\* C31 witness: an accepted message was acknowledged, its query failed, and
\* the error text was posted as the one reply
C31_Witness ==
    \E s \in Slots :
        /\ Called(s) /\ Accepts(handlers[s].message)
        /\ handlers[s].phase = "replied"
        /\ handlers[s].raised = 0
        /\ IsFailure(asks[s].result)
        /\ Len(PostsBy(s)) = 2
        /\ PostsBy(s)[2].kind = "error"

====











